---- MODULE Spec2Model ----
(***************************************************************************)
(* Model of the sprite clean-up scripts of extension/assets:               *)
(*   clean_assets.py  clean_image   border-seeded flood fill               *)
(*   force_crop.py    circular_crop circular alpha mask                    *)
(* A pixel is the tuple <<r, g, b, a>>; a grid is a function from the      *)
(* coordinates <<x, y>>, 0 <= x < width, 0 <= y < height, to pixels.       *)
(***************************************************************************)
EXTENDS Integers, Sequences, FiniteSets, TLC

\* ------------------------------------------------------------------ bounds
\* The exhaustively enumerated grids have at most MaxCells pixels.
MaxCells == 4

\* ------------------------------------------------------------ input values
White      == <<255, 255, 255, 255>>
NearWhite  == <<249, 255, 255, 255>>
Near2      == <<245, 255, 255, 255>>
Green      == <<0, 255, 0, 255>>
ClearWhite == <<255, 255, 255, 0>>

Palette     == {White, NearWhite, Near2, ClearWhite}
Tolerances  == {0, 5, 10}
HintLists   == {<< >>, <<(<<55, 55, 53>>), (<<249, 255, 255>>)>>}

Coords(w, h) == (0 .. w - 1) \X (0 .. h - 1)

\* --------------------------------------------------------- pure functions
Sq(n) == n * n

\* get_distance squared: the sum over the first three channels only.
get_distance2(c1, c2) ==
    Sq(c1[1] - c2[1]) + Sq(c1[2] - c2[2]) + Sq(c1[3] - c2[3])

\* Variant: the tolerance test with < in place of <=.
DistLeq_Strict(c1, c2, tol) == get_distance2(c1, c2) < Sq(tol)

\* get_distance(c1, c2) <= tol, for tol >= 0.
DistLeq(c1, c2, tol) == get_distance2(c1, c2) <= Sq(tol)

\* get_distance(c1, c2) < tol, for tol >= 0.
DistLess(c1, c2, tol) == get_distance2(c1, c2) < Sq(tol)

\* The border list as the two loops build it: (x,0),(x,h-1) for each x,
\* then (0,y),(w-1,y) for each y.
BorderPixels(w, h) ==
    [i \in 1 .. 2 * w |->
        <<(i - 1) \div 2, IF i % 2 = 1 THEN 0 ELSE h - 1>>]
    \o
    [i \in 1 .. 2 * h |->
        <<IF i % 2 = 1 THEN 0 ELSE w - 1, (i - 1) \div 2>>]

\* In-bounds 4-neighbours in the order left, right, up, down.
Neighbors(p, w, h) ==
    LET cand == << <<p[1] - 1, p[2]>>, <<p[1] + 1, p[2]>>,
                   <<p[1], p[2] - 1>>, <<p[1], p[2] + 1>> >>
        InBounds(q) == 0 <= q[1] /\ q[1] < w /\ 0 <= q[2] /\ q[2] < h
    IN SelectSeq(cand, InBounds)

Range(s) == {s[i] : i \in 1 .. Len(s)}

\* The hint loop: is_bg as the loop leaves it.
HintMatch(color, hintList, tol) ==
    \E i \in 1 .. Len(hintList) : DistLess(color, hintList[i], tol)

\* ------------------------------------------------------------------ state
VARIABLES
    width, height,     \* img.size
    bg_hints,          \* the hint list of the call
    tolerance,         \* the tolerance of the call
    orig,              \* the grid before the first call
    input,             \* the grid as loaded by the current call
    pixels,            \* img.load(): the grid being mutated
    visited, to_clear, \* the two sets of the call
    border_pixels,     \* the border list of the call
    bi,                \* position of the border loop in border_pixels
    queue,             \* the flood-fill queue
    start_color,       \* reference colour of the running traversal
    seeds,             \* border pixels at which a traversal was started
    tested,            \* per coordinate, tolerance tests made in this call
    cleared_count,     \* len(to_clear) as printed
    pc,                \* "scan", "fill", "done"; "crop" for circular_crop
    pass,              \* which call is running
    out1, count1,      \* grid and count left by the first call
    mask,              \* circular_crop: the coordinates the ellipse fills
    raises             \* circular_crop: draw.ellipse rejects its box

vars == <<width, height, bg_hints, tolerance, orig, input, pixels, visited,
          to_clear, border_pixels, bi, queue, start_color, seeds, tested,
          cleared_count, pc, pass, out1, count1, mask, raises>>

Cells == Coords(width, height)

\* ------------------------------------------------------------------ inputs
\* Every grid of at most MaxCells pixels over the palette.
SmallGrids ==
    UNION {[Coords(wh[1], wh[2]) -> Palette] :
             wh \in {d \in (1 .. MaxCells) \X (1 .. MaxCells) : d[1] * d[2] <= MaxCells}}

\* One colour everywhere, except d at pos (pos outside the grid: uniform).
OneOff(w, h, c, pos, d) == [p \in Coords(w, h) |-> IF p = pos THEN d ELSE c]

Interior(w, h) == (1 .. w - 2) \X (1 .. h - 2)

\* Uniform grids with at most one deviating interior pixel.
OneOffGrids ==
    UNION {{OneOff(wh[1], wh[2], c, pos, d) :
              c \in {White, NearWhite},
              pos \in Interior(wh[1], wh[2]) \cup {<<-1, -1>>},
              d \in {Green, Near2, ClearWhite}} :
           wh \in {<<3, 3>>, <<4, 3>>}}

\* Every 3x3 grid of opaque near-white and transparent white pixels.
TwoToneGrids == [Coords(3, 3) -> {NearWhite, ClearWhite}]

\* The two worked scenarios: 10x10 uniform, 5x5 white with a green centre.
ScenarioGrids ==
    {OneOff(10, 10, White, <<-1, -1>>, White), OneOff(5, 5, White, <<2, 2>>, Green)}

WidthOf(g)  == 1 + CHOOSE x \in 0 .. 9 :
                  (\E p \in DOMAIN g : p[1] = x) /\ ~(\E p \in DOMAIN g : p[1] = x + 1)
HeightOf(g) == 1 + CHOOSE y \in 0 .. 9 :
                  (\E p \in DOMAIN g : p[2] = y) /\ ~(\E p \in DOMAIN g : p[2] = y + 1)

\* State of a call of clean_image right before the border loop (lines 10-24).
EnterClean(g, border) ==
    /\ input' = g
    /\ pixels' = g
    /\ visited' = {}
    /\ to_clear' = {}
    /\ border_pixels' = border
    /\ bi' = 1
    /\ queue' = << >>
    /\ start_color' = <<0, 0, 0, 0>>
    /\ seeds' = {}
    /\ tested' = [p \in DOMAIN g |-> 0]
    /\ cleared_count' = 0
    /\ pc' = "scan"

Init ==
    \E g \in SmallGrids \cup OneOffGrids \cup TwoToneGrids \cup ScenarioGrids :
      /\ width = WidthOf(g)
      /\ height = HeightOf(g)
      /\ bg_hints \in HintLists
      /\ tolerance \in Tolerances
      /\ orig = g
      /\ input = g
      /\ pixels = g
      /\ visited = {}
      /\ to_clear = {}
      /\ border_pixels = BorderPixels(WidthOf(g), HeightOf(g))
      /\ bi = 1
      /\ queue = << >>
      /\ start_color = <<0, 0, 0, 0>>
      /\ seeds = {}
      /\ tested = [p \in DOMAIN g |-> 0]
      /\ cleared_count = 0
      /\ pc = "scan"
      /\ pass = 1
      /\ out1 = g
      /\ count1 = 0
      /\ mask = {}
      /\ raises = FALSE

\* ------------------------------------------------------- clean_image steps
call == <<width, height, bg_hints, tolerance, orig, input, border_pixels,
          pass, out1, count1, mask, raises>>

\* Variant: break in place of continue at line 28.
ScanSkipVisited_Break ==
    /\ pc = "scan" /\ bi <= Len(border_pixels)
    /\ border_pixels[bi] \in visited
    /\ bi' = Len(border_pixels) + 1
    /\ UNCHANGED <<call, pixels, visited, to_clear, queue, start_color, seeds,
                   tested, cleared_count, pc>>

\* Line 27: the border coordinate was already dequeued by a traversal.
ScanSkipVisited ==
    /\ pc = "scan" /\ bi <= Len(border_pixels)
    /\ border_pixels[bi] \in visited
    /\ bi' = bi + 1
    /\ UNCHANGED <<call, pixels, visited, to_clear, queue, start_color, seeds,
                   tested, cleared_count, pc>>

\* Line 32: the border pixel is already transparent.
ScanSkipTransparent ==
    /\ pc = "scan" /\ bi <= Len(border_pixels)
    /\ border_pixels[bi] \notin visited
    /\ pixels[border_pixels[bi]][4] = 0
    /\ bi' = bi + 1
    /\ UNCHANGED <<call, pixels, visited, to_clear, queue, start_color, seeds,
                   tested, cleared_count, pc>>

\* Lines 37-50: the hint loop, the override is_bg = True, the new queue.
ScanSeed ==
    /\ pc = "scan" /\ bi <= Len(border_pixels)
    /\ border_pixels[bi] \notin visited
    /\ pixels[border_pixels[bi]][4] # 0
    /\ LET color == pixels[border_pixels[bi]]
           hinted == HintMatch(color, bg_hints, tolerance)
           is_bg == hinted \/ TRUE
       IN /\ is_bg
          /\ queue' = <<border_pixels[bi]>>
          /\ start_color' = color
    /\ seeds' = seeds \cup {border_pixels[bi]}
    /\ pc' = "fill"
    /\ UNCHANGED <<call, pixels, visited, to_clear, bi, tested, cleared_count>>

\* Lines 53-55: a coordinate dequeued again after its first dequeue.
DequeueVisited ==
    /\ pc = "fill" /\ queue # << >>
    /\ Head(queue) \in visited
    /\ queue' = Tail(queue)
    /\ UNCHANGED <<call, pixels, visited, to_clear, bi, start_color, seeds,
                   tested, cleared_count, pc>>

\* Lines 53-66, tolerance test passed: clear and enqueue the neighbours.
DequeueClear ==
    /\ pc = "fill" /\ queue # << >>
    /\ Head(queue) \notin visited
    /\ DistLeq(pixels[Head(queue)], start_color, tolerance)
    /\ visited' = visited \cup {Head(queue)}
    /\ tested' = [tested EXCEPT ![Head(queue)] = @ + 1]
    /\ to_clear' = to_clear \cup {Head(queue)}
    /\ pixels' = [pixels EXCEPT ![Head(queue)] = <<0, 0, 0, 0>>]
    /\ queue' = Tail(queue) \o Neighbors(Head(queue), width, height)
    /\ UNCHANGED <<call, bi, start_color, seeds, cleared_count, pc>>

\* Variant: the pixel is blanked before the tolerance test.
DequeueKeep_Blanks ==
    /\ pc = "fill" /\ queue # << >>
    /\ Head(queue) \notin visited
    /\ ~DistLeq(pixels[Head(queue)], start_color, tolerance)
    /\ visited' = visited \cup {Head(queue)}
    /\ tested' = [tested EXCEPT ![Head(queue)] = @ + 1]
    /\ pixels' = [pixels EXCEPT ![Head(queue)] = <<0, 0, 0, 0>>]
    /\ queue' = Tail(queue)
    /\ UNCHANGED <<call, to_clear, bi, start_color, seeds, cleared_count, pc>>

\* Variant: visited.add only under the tolerance test.
DequeueKeep_NoVisit ==
    /\ pc = "fill" /\ queue # << >>
    /\ Head(queue) \notin visited
    /\ ~DistLeq(pixels[Head(queue)], start_color, tolerance)
    /\ tested' = [tested EXCEPT ![Head(queue)] = @ + 1]
    /\ queue' = Tail(queue)
    /\ UNCHANGED <<call, pixels, visited, to_clear, bi, start_color, seeds,
                   cleared_count, pc>>

\* Lines 53-58, tolerance test failed: only visited changes.
DequeueKeep ==
    /\ pc = "fill" /\ queue # << >>
    /\ Head(queue) \notin visited
    /\ ~DistLeq(pixels[Head(queue)], start_color, tolerance)
    /\ visited' = visited \cup {Head(queue)}
    /\ tested' = [tested EXCEPT ![Head(queue)] = @ + 1]
    /\ queue' = Tail(queue)
    /\ UNCHANGED <<call, pixels, to_clear, bi, start_color, seeds,
                   cleared_count, pc>>

\* Line 52, queue empty: back to the border loop.
FillEnd ==
    /\ pc = "fill" /\ queue = << >>
    /\ pc' = "scan"
    /\ bi' = bi + 1
    /\ UNCHANGED <<call, pixels, visited, to_clear, queue, start_color, seeds,
                   tested, cleared_count>>

\* Lines 68-70: the border loop is over; print the count, save the image.
ScanEnd ==
    /\ pc = "scan" /\ bi > Len(border_pixels)
    /\ cleared_count' = Cardinality(to_clear)
    /\ pc' = "done"
    /\ UNCHANGED <<call, pixels, visited, to_clear, bi, queue, start_color,
                   seeds, tested>>

\* Later repeats of a coordinate removed from a list.
RECURSIVE Dedup(_)
Dedup(s) ==
    IF s = << >> THEN << >>
    ELSE LET front == Dedup(SubSeq(s, 1, Len(s) - 1))
         IN IF s[Len(s)] \in Range(front) THEN front
            ELSE Append(front, s[Len(s)])

\* clean_image called again, same arguments, on the file the first call saved.
SecondCall ==
    /\ pc = "done" /\ pass = 1
    /\ pass' = 2
    /\ out1' = pixels
    /\ count1' = cleared_count
    /\ EnterClean(pixels, BorderPixels(width, height))
    /\ UNCHANGED <<width, height, bg_hints, tolerance, orig, mask, raises>>

\* clean_image on the original file with the repeats of the border list removed.
DedupCall ==
    /\ pc = "done" /\ pass = 2
    /\ pass' = 3
    /\ EnterClean(orig, Dedup(BorderPixels(width, height)))
    /\ UNCHANGED <<width, height, bg_hints, tolerance, orig, out1, count1, mask,
                   raises>>

Next ==
    \/ ScanSkipVisited
    \/ ScanSkipTransparent
    \/ ScanSeed
    \/ DequeueVisited
    \/ DequeueClear
    \/ DequeueKeep
    \/ FillEnd
    \/ ScanEnd
    \/ SecondCall
    \/ DedupCall

Spec == Init /\ [][Next]_vars

\* ------------------------------------------------------------- properties
Done == pc = "done"

\* Pixels reachable from S by 4-connected steps onto pixels of g within tol of c.
RECURSIVE Reach(_, _, _, _, _, _)
Reach(S, g, c, tol, w, h) ==
    LET T == S \cup {q \in Coords(w, h) :
                       /\ DistLeq(g[q], c, tol)
                       /\ \E p \in S : q \in Range(Neighbors(p, w, h))}
    IN IF T = S THEN S ELSE Reach(T, g, c, tol, w, h)

\* The region of seed s: s itself is at distance 0 from its own colour.
Region(g, s, tol, w, h) == Reach({s}, g, g[s], tol, w, h)

BorderSet == Range(BorderPixels(width, height))

\* C1: when a call ends, the cleared set is exactly the union of the regions
\* of the border seeds, each region taken on the input grid with the seed's
\* input colour.
C1_ClearedIsUnionOfRegions ==
    Done => to_clear = UNION {Region(input, s, tolerance, width, height) : s \in seeds}

\* C2: the second call, run with the same arguments on the grid the first
\* call saved, never changes a pixel.
C2_Idempotent == pass = 2 => pixels = out1

\* C3: the printed count is the number of pixels whose alpha went from
\* non-zero in the input to zero in the result.
C3_CountIsAlphaTransitions ==
    Done => cleared_count =
              Cardinality({p \in Cells : input[p][4] # 0 /\ pixels[p][4] = 0})

\* C4: when a call ends, every pixel no traversal reached and every pixel
\* dequeued but over tolerance has its four input channel values.
C4_OnlyClearedChange ==
    Done => \A p \in Cells :
              (p \notin visited \/ (p \in visited /\ p \notin to_clear))
                 => pixels[p] = input[p]

C4_Witness ==
    /\ Done /\ pass = 1
    /\ to_clear # {}
    /\ \E p \in Cells : p \notin visited
    /\ \E p \in Cells : p \in visited /\ p \notin to_clear

\* The grid is one opaque colour c, but for at most one non-border pixel that
\* is opaque and farther than tol from c.
OneOffCase(g, w, h, tol) ==
    LET c == g[<<0, 0>>]
        odd == {p \in Coords(w, h) : g[p] # c}
    IN /\ c[4] = 255
       /\ Cardinality(odd) <= 1
       /\ \A p \in odd : /\ p \in Interior(w, h)
                         /\ g[p][4] = 255
                         /\ ~DistLeq(g[p], c, tol)

\* C7: on such a grid the call clears every pixel of colour c, leaves the odd
\* pixel as it was and reports the number of colour-c pixels; 100 on the
\* uniform 10x10 grid and 24 on the 5x5 white grid with a green centre.
C7_UniformBackgroundCleared ==
    (Done /\ OneOffCase(input, width, height, tolerance)) =>
       LET bg == {p \in Cells : input[p] = input[<<0, 0>>]}
       IN /\ to_clear = bg
          /\ \A p \in bg : pixels[p][4] = 0
          /\ \A p \in Cells \ bg : pixels[p] = input[p]
          /\ cleared_count = Cardinality(bg)
          /\ (width = 10 /\ height = 10) => cleared_count = 100
          /\ (width = 5 /\ height = 5 /\ Cells # bg) => cleared_count = 24

C7_Witness ==
    /\ Done /\ pass = 1
    /\ width = 5 /\ height = 5 /\ tolerance = 10
    /\ input[<<2, 2>>] = Green
    /\ pixels[<<2, 2>>] = Green
    /\ cleared_count = 24

\* C8: when a call ends, every border pixel that was not transparent in the
\* input is transparent.
C8_BorderCleared ==
    Done => \A p \in BorderSet : input[p][4] # 0 => pixels[p][4] = 0

\* C9: the call over the border list without its repeats ends with the grid
\* and the count of the call over the border list as built.
C9_RepeatsIrrelevant ==
    (Done /\ pass = 3) => (pixels = out1 /\ cleared_count = count1)

C9_Witness ==
    /\ Done /\ pass = 3
    /\ Len(border_pixels) < Len(BorderPixels(width, height))
    /\ height = 1 /\ width > 1
    /\ cleared_count > 0 /\ cleared_count < width

\* A step of clean_image itself.
CleanStep ==
    \/ ScanSkipVisited \/ ScanSkipTransparent \/ ScanSeed
    \/ DequeueVisited \/ DequeueClear \/ DequeueKeep
    \/ FillEnd \/ ScanEnd

\* Work left in the running call: unvisited pixels, queued coordinates,
\* border entries still to scan.
CallRank ==
    5 * Cardinality(Cells \ visited) + Len(queue)
      + 3 * (Len(border_pixels) + 1 - bi) + (IF pc = "scan" THEN 2 ELSE 0)

\* More than the work of any one call on this grid.
CallBudget == 5 * width * height + 3 * Len(BorderPixels(width, height)) + 3

Rank == (3 - pass) * CallBudget + CallRank

\* C10: a call that has not ended can always take a step, every step lowers
\* a natural-number measure of the work left (so every call ends), and
\* within a call no coordinate is tested against the tolerance twice.
C10_Terminates ==
    /\ [](\A p \in Cells : tested[p] <= 1)
    /\ [](Done \/ ENABLED CleanStep)
    /\ [](Rank >= 0)
    /\ [][Rank' < Rank]_vars

C10_Witness ==
    /\ Done /\ pass = 1
    /\ width = 1 /\ height = 1 /\ tolerance = 0 /\ bg_hints = << >>
    /\ cleared_count = 1

\* ----------------------------------------------------------- circular_crop
Min(a, b) == IF a <= b THEN a ELSE b

\* Twice the radius of line 16: min(width, height) / 2 - 2.
Radius2(w, h) == Min(w, h) - 4

\* The box handed to draw.ellipse, every bound doubled:
\* (center_x - radius, center_y - radius, center_x + radius, center_y + radius).
Box2(w, h) ==
    <<w - Radius2(w, h), h - Radius2(w, h), w + Radius2(w, h), h + Radius2(w, h)>>

\* The pixels of the box, its bounds rounded outwards.
BoxPixels(w, h) ==
    {p \in Coords(w, h) :
        /\ 2 * p[1] >= Box2(w, h)[1] - 1 /\ 2 * p[1] <= Box2(w, h)[3] + 1
        /\ 2 * p[2] >= Box2(w, h)[2] - 1 /\ 2 * p[2] <= Box2(w, h)[4] + 1}

\* draw.ellipse is library code: it fills some pixels of its box and none
\* outside it, the same ones whenever it is given the same box.
EllipseMasks(w, h) == SUBSET BoxPixels(w, h)

\* Image.new('RGBA', (width, height), (0, 0, 0, 0)).
Canvas(w, h) == [p \in Coords(w, h) |-> <<0, 0, 0, 0>>]

\* Variant: the image pasted one pixel to the right of (0, 0).
Paste_Offset(canvas, img, m) ==
    [p \in DOMAIN canvas |->
        IF p \in m /\ <<p[1] - 1, p[2]>> \in DOMAIN img
        THEN img[<<p[1] - 1, p[2]>>] ELSE canvas[p]]

\* result.paste(img, (0, 0), mask=mask) with a mask of 0 and 255: the source
\* pixel, alpha included, where the mask is 255; the canvas elsewhere.
Paste(canvas, img, m) ==
    [p \in DOMAIN canvas |-> IF p \in m THEN img[p] ELSE canvas[p]]

HalfClear == <<10, 20, 30, 128>>

\* Two-colour checkerboards of the sizes below.
CropGrids ==
    UNION {{[p \in Coords(wh[1], wh[2]) |-> IF (p[1] + p[2]) % 2 = 0 THEN a ELSE b] :
              a \in {White, Green, HalfClear, ClearWhite},
              b \in {White, Green, HalfClear, ClearWhite}} :
           wh \in {<<1, 1>>, <<3, 2>>, <<4, 4>>, <<5, 5>>, <<6, 5>>}}

InitCrop ==
    \E g \in CropGrids :
      /\ width = WidthOf(g)
      /\ height = HeightOf(g)
      /\ mask \in EllipseMasks(WidthOf(g), HeightOf(g))
      /\ raises \in {r \in BOOLEAN : r => Radius2(WidthOf(g), HeightOf(g)) < 0}
      /\ orig = g
      /\ input = g
      /\ pixels = g
      /\ out1 = g
      /\ pc = "crop"
      /\ pass = 1
      /\ bg_hints = << >>
      /\ tolerance = 0
      /\ visited = {}
      /\ to_clear = {}
      /\ border_pixels = << >>
      /\ bi = 1
      /\ queue = << >>
      /\ start_color = <<0, 0, 0, 0>>
      /\ seeds = {}
      /\ tested = [p \in DOMAIN g |-> 0]
      /\ cleared_count = 0
      /\ count1 = 0

cleanState == <<bg_hints, tolerance, visited, to_clear, border_pixels, bi, queue,
                start_color, seeds, tested, cleared_count, count1>>

\* Lines 7-25: mask, paste onto the transparent canvas, save over the file.
CropApply ==
    /\ pc = "crop" /\ pass <= 2
    /\ ~raises
    /\ input' = pixels
    /\ pixels' = Paste(Canvas(width, height), pixels, mask)
    /\ out1' = IF pass = 1 THEN pixels' ELSE out1
    /\ pass' = pass + 1
    /\ UNCHANGED <<width, height, orig, mask, raises, pc, cleanState>>

\* Lines 28-29: draw.ellipse raised; the file is left as it was.
CropError ==
    /\ pc = "crop" /\ pass <= 2
    /\ raises
    /\ input' = pixels
    /\ out1' = IF pass = 1 THEN pixels ELSE out1
    /\ pass' = pass + 1
    /\ UNCHANGED <<width, height, orig, pixels, mask, raises, pc, cleanState>>

NextCrop == CropApply \/ CropError

SpecCrop == InitCrop /\ [][NextCrop]_vars

\* C6: circular_crop applied to its own output leaves every pixel of that
\* output as it is, colour and alpha.
C6_CropIdempotent == (pc = "crop" /\ pass = 3) => pixels = out1

C6_Witness ==
    /\ pc = "crop" /\ pass = 3 /\ ~raises
    /\ \E p \in mask : pixels[p] = HalfClear
    /\ \E p \in Cells \ mask : orig[p][4] # 0 /\ pixels[p] = <<0, 0, 0, 0>>
    /\ pixels # orig

====
